---- MODULE Spec2Model ----
(***************************************************************************)
(* A model of the two command-line tools of code_analysis/:                *)
(*   get_address_freq.cpp  the address-frequency counter (Spec)            *)
(*   read_data.cpp         the contract-address deduplicator (SpecDedup)   *)
(* Both are one `main`: open the input, getline the header, loop           *)
(* `while (!fin.eof())` reading a line and aggregating it, print the size  *)
(* of the table, write the output file.  A file is a sequence of           *)
(* characters; getline, find_first_of, substr and operator<< are modelled  *)
(* by what the C++ library does on these characters.                       *)
(***************************************************************************)
EXTENDS Integers, Sequences, FiniteSets

\* ------------------------------------------------------------------ bounds
\* The longest input file, in characters.
MaxFileLen == 5

\* Passes of the read loop after which the model stops following a run.  A
\* loop that ends makes at most MaxFileLen + 1 passes, so the cap only cuts
\* the runs whose loop never ends.
MaxPasses == MaxFileLen + 3

\* ------------------------------------------------------------- characters
NL == "\n"
Comma == ","
Chars == {"a", "b", Comma, NL}

\* Every text of at most n characters.
Texts(n) == UNION {[1..m -> Chars] : m \in 0..n}

VARIABLES
  openOk,       \* environment: the input path can be opened for reading
  file,         \* environment: the characters of the input file
  badOffsets,   \* environment: offsets at which the device fails a read
  fin,          \* the ifstream: is_open, get position, eofbit/failbit/badbit
  s,            \* string s
  address_map,  \* unordered_map<string,int> address_map
  address_set,  \* unordered_set<string> address_set (read_data.cpp)
  cout,         \* the lines printed on standard output
  outFile,      \* the lines of the output file (it outlives the process)
  iter,         \* the keys the output loop has still to visit
  pc,           \* the statement main is at
  exitCode,     \* main's return value once it returned, else <<>>
  run,          \* "first" or "second" execution of the tool on this input
  prevOut,      \* the output file as the first execution left it
  records       \* history: the <<first, second>> pairs aggregated so far

vars == <<openOk, file, badOffsets, fin, s, address_map, address_set, cout,
          outFile, iter, pc, exitCode, run, prevOut, records>>

env == <<openOk, file, badOffsets>>

\* --------------------------------------------------------------- library
\* std::string::npos and the result of `int pos = find_first_of(..)`.
\* size_t values are integers modulo 2^64 and int values integers modulo
\* 2^32; both are represented by the congruent integer nearest to zero, so
\* that npos = 2^64 - 1 is -1, its conversion to int is -1, and the
\* unsigned arithmetic of the source is the integer arithmetic below.  A
\* negative representative is an unsigned value above every string size.
Npos == 0 - 1

\* s.find_first_of(c): the offset of the first c in str, or npos.
find_first_of(str, c) ==
  IF \E i \in 1..Len(str) : str[i] = c
    THEN (CHOOSE i \in 1..Len(str) :
            str[i] = c /\ \A j \in 1..(i - 1) : str[j] # c) - 1
    ELSE Npos

\* s.substr(pos, n) throws std::out_of_range when pos > size().
SubstrThrows(str, pos) == pos < 0 \/ pos > Len(str)

\* s.substr(pos, n): min(n, size() - pos) characters from offset pos.
substr(str, pos, n) ==
  LET rlen == IF n < 0 \/ n > Len(str) - pos THEN Len(str) - pos ELSE n
  IN  SubSeq(str, pos + 1, pos + rlen)

\* ios_base state after construction of an ifstream.
NewStream == [is_open |-> FALSE, pos |-> 0,
              eofbit |-> FALSE, failbit |-> FALSE, badbit |-> FALSE]

good(f) == ~f.eofbit /\ ~f.failbit /\ ~f.badbit

\* fin.open(path): on success the stream is open at offset 0 with a clear
\* state; on failure failbit is set.
StreamOpen(f) ==
  IF openOk THEN [NewStream EXCEPT !.is_open = TRUE]
            ELSE [f EXCEPT !.failbit = TRUE]

\* fin.close(): sets failbit when the stream is not open.
StreamClose(f) ==
  IF f.is_open THEN [f EXCEPT !.is_open = FALSE]
               ELSE [f EXCEPT !.failbit = TRUE]

\* std::getline(fin, s).  With a stream that is not good the sentry fails:
\* failbit is set and the string is left as it was.  Otherwise the string
\* is erased and characters are extracted up to the first of: a failing
\* read (badbit), end of file (eofbit), a newline (extracted, not stored).
\* failbit is set when nothing was extracted.
getline(f, str) ==
  IF ~good(f) THEN [fin |-> [f EXCEPT !.failbit = TRUE], s |-> str]
  ELSE
    LET n == Len(file)
        Stops(k) == k \in badOffsets \/ k = n \/ file[k + 1] = NL
        e == CHOOSE k \in f.pos..n :
               Stops(k) /\ \A j \in f.pos..(k - 1) : ~Stops(j)
        got == SubSeq(file, f.pos + 1, e)
    IN  IF e \in badOffsets
          THEN [fin |-> [f EXCEPT !.pos = e, !.badbit = TRUE,
                                  !.failbit = (got = <<>>)],
                s |-> got]
        ELSE IF e = n
          THEN [fin |-> [f EXCEPT !.pos = n, !.eofbit = TRUE,
                                  !.failbit = (got = <<>>)],
                s |-> got]
        ELSE [fin |-> [f EXCEPT !.pos = e + 1], s |-> got]

\* operator<< of an int: its decimal digits.
Digit == <<"0", "1", "2", "3", "4", "5", "6", "7", "8", "9">>

RECURSIVE Decimal(_)
Decimal(n) ==
  IF n < 10 THEN <<Digit[n + 1]>>
            ELSE Decimal(n \div 10) \o <<Digit[(n % 10) + 1]>>

\* ------------------------------------------------- get_address_freq.cpp
\* unordered_map<string, int> address_map; as constructed.
EmptyMap == [k \in {} |-> 0]

\* Same construction, with the table of the previous execution kept.
ConstructAddressMap_Kept == address_map

ConstructAddressMap == EmptyMap

\* address_map[k]++ that stores 1 whatever the count was.
Incr_NoAdd(m, k) == [x \in DOMAIN m \cup {k} |-> IF x = k THEN 1 ELSE m[x]]

\* address_map[k]++ : operator[] inserts k with 0 when absent.
Incr(m, k) ==
  [x \in DOMAIN m \cup {k} |->
     IF x = k THEN (IF k \in DOMAIN m THEN m[k] ELSE 0) + 1 ELSE m[x]]

\* if (fin.is_open()) taken whatever the stream's state.
IsOpenBranch_Unchecked(f) == "getheader"

\* if (fin.is_open()) { ... }
IsOpenBranch(f) == IF f.is_open THEN "getheader" ELSE "print"

\* while (!fin.bad()) in place of while (!fin.eof()).
LoopTest_Bad(f) == IF ~f.badbit THEN "body" ELSE "print"

\* while (!fin.eof())
LoopTest(f) == IF ~f.eofbit THEN "body" ELSE "print"

\* fout << "address,count"
HeaderRow ==
  <<"a", "d", "d", "r", "e", "s", "s", ",", "c", "o", "u", "n", "t">>

\* fout << iter->first << ',' << iter->second
Row(k, n) == k \o <<Comma>> \o Decimal(n)

\* ofstream fout(path): the default mode truncates the existing content.
OpenTrunc(old) == <<>>

Init ==
  /\ openOk \in BOOLEAN
  /\ file \in (IF openOk THEN Texts(MaxFileLen) ELSE {<<>>})
  /\ badOffsets \in
       (IF openOk THEN {{}} \cup {{k} : k \in 0..Len(file)} ELSE {{}})
  /\ fin = NewStream
  /\ s = <<>>
  /\ address_map = EmptyMap
  /\ address_set = {}
  /\ cout = <<>>
  /\ outFile = <<>>
  /\ iter = {}
  /\ pc = "open"
  /\ exitCode = <<>>
  /\ run = "first"
  /\ prevOut = <<>>
  /\ records = <<>>

\* fin.open("./filtered_address.csv"); if (fin.is_open())
Open ==
  /\ pc = "open"
  /\ fin' = StreamOpen(fin)
  /\ pc' = IsOpenBranch(fin')
  /\ UNCHANGED <<env, s, address_map, address_set, cout, outFile, iter,
                 exitCode, run, prevOut, records>>

\* getline(fin, s);  (the header)
ReadHeader ==
  /\ pc = "getheader"
  /\ LET r == getline(fin, s) IN fin' = r.fin /\ s' = r.s
  /\ pc' = "while"
  /\ UNCHANGED <<env, address_map, address_set, cout, outFile, iter,
                 exitCode, run, prevOut, records>>

\* while (!fin.eof())
While ==
  /\ pc = "while"
  /\ pc' = LoopTest(fin)
  /\ UNCHANGED <<env, fin, s, address_map, address_set, cout, outFile,
                 iter, exitCode, run, prevOut, records>>

\* getline(fin, s); int pos = s.find_first_of(',');
\* address_map[s.substr(0, pos)]++;
\* address_map[s.substr(pos + 1, s.size() - pos - 1)]++;
Body ==
  /\ pc = "body"
  /\ Len(records) < MaxPasses
  /\ LET r == getline(fin, s)
         pos == find_first_of(r.s, Comma)
         first == substr(r.s, 0, pos)
         second == substr(r.s, pos + 1, Len(r.s) - pos - 1)
     IN  /\ fin' = r.fin
         /\ s' = r.s
         /\ IF SubstrThrows(r.s, 0) \/ SubstrThrows(r.s, pos + 1)
              THEN /\ pc' = "terminated"
                   /\ UNCHANGED <<address_map, records>>
              ELSE /\ address_map' = Incr(Incr(address_map, first), second)
                   /\ records' = Append(records, <<first, second>>)
                   /\ pc' = "while"
  /\ UNCHANGED <<env, address_set, cout, outFile, iter, exitCode, run,
                 prevOut>>

\* cout << address_map.size() << endl; fin.close();
PrintSize ==
  /\ pc = "print"
  /\ cout' = Append(cout, Decimal(Cardinality(DOMAIN address_map)))
  /\ fin' = StreamClose(fin)
  /\ pc' = "fopen"
  /\ UNCHANGED <<env, s, address_map, address_set, outFile, iter,
                 exitCode, run, prevOut, records>>

\* ofstream fout("filtered_address_freq_count.csv");
\* fout << "address,count" << endl; iter = address_map.begin()
OpenOut ==
  /\ pc = "fopen"
  /\ outFile' = Append(OpenTrunc(outFile), HeaderRow)
  /\ iter' = DOMAIN address_map
  /\ pc' = "rows"
  /\ UNCHANGED <<env, fin, s, address_map, address_set, cout, exitCode,
                 run, prevOut, records>>

\* fout << iter->first << ',' << iter->second << endl; ++iter
\* The order in which an unordered_map is visited is unspecified.
WriteRow ==
  /\ pc = "rows"
  /\ \E k \in iter :
       /\ outFile' = Append(outFile, Row(k, address_map[k]))
       /\ iter' = iter \ {k}
  /\ UNCHANGED <<env, fin, s, address_map, address_set, cout, pc,
                 exitCode, run, prevOut, records>>

\* iter == address_map.end(); fout.close(); return 0;
Finish ==
  /\ pc = "rows"
  /\ iter = {}
  /\ pc' = "done"
  /\ exitCode' = <<0>>
  /\ UNCHANGED <<env, fin, s, address_map, address_set, cout, outFile,
                 iter, run, prevOut, records>>

\* The tool is started again on the same input: a new process, whose
\* locals are constructed anew; the output file of the first execution is
\* still on disk.
Rerun ==
  /\ pc = "done"
  /\ run = "first"
  /\ run' = "second"
  /\ prevOut' = outFile
  /\ fin' = NewStream
  /\ s' = <<>>
  /\ address_map' = ConstructAddressMap
  /\ cout' = <<>>
  /\ iter' = {}
  /\ exitCode' = <<>>
  /\ records' = <<>>
  /\ pc' = "open"
  /\ UNCHANGED <<env, address_set, outFile>>

Next ==
  \/ Open
  \/ ReadHeader
  \/ While
  \/ Body
  \/ PrintSize
  \/ OpenOut
  \/ WriteRow
  \/ Finish
  \/ Rerun

Spec == Init /\ [][Next]_vars

\* --------------------------------------------------------- read_data.cpp
\* get_address that returns the whole line.
get_address_WholeLine(data_line) == data_line

\* return data_line.substr(0, data_line.find_first_of(','));
get_address(data_line) ==
  substr(data_line, 0, find_first_of(data_line, Comma))

\* fout << "contract_address"
DedupHeaderRow ==
  <<"c", "o", "n", "t", "r", "a", "c", "t", "_",
    "a", "d", "d", "r", "e", "s", "s">>

\* fin.open("./ContractInfo_queYixie/ContractInfo_queHenduo.csv");
\* if (fin.is_open())
DOpen ==
  /\ pc = "open"
  /\ fin' = StreamOpen(fin)
  /\ pc' = IF fin'.is_open THEN "getheader" ELSE "print"
  /\ UNCHANGED <<env, s, address_map, address_set, cout, outFile, iter,
                 exitCode, run, prevOut, records>>

\* getline(fin, s);  (the header)
DReadHeader ==
  /\ pc = "getheader"
  /\ LET r == getline(fin, s) IN fin' = r.fin /\ s' = r.s
  /\ pc' = "while"
  /\ UNCHANGED <<env, address_map, address_set, cout, outFile, iter,
                 exitCode, run, prevOut, records>>

\* while (!fin.eof())
DWhile ==
  /\ pc = "while"
  /\ pc' = IF ~fin.eofbit THEN "body" ELSE "print"
  /\ UNCHANGED <<env, fin, s, address_map, address_set, cout, outFile,
                 iter, exitCode, run, prevOut, records>>

\* getline(fin, s); address_set.insert(get_address(s));
DBody ==
  /\ pc = "body"
  /\ Len(records) < MaxPasses
  /\ LET r == getline(fin, s)
     IN  /\ fin' = r.fin
         /\ s' = r.s
         /\ address_set' = address_set \cup {get_address(r.s)}
         /\ records' = Append(records, <<get_address(r.s)>>)
  /\ pc' = "while"
  /\ UNCHANGED <<env, address_map, cout, outFile, iter, exitCode, run,
                 prevOut>>

\* cout << address_set.size() << endl; fin.close();
DPrintSize ==
  /\ pc = "print"
  /\ cout' = Append(cout, Decimal(Cardinality(address_set)))
  /\ fin' = StreamClose(fin)
  /\ pc' = "fopen"
  /\ UNCHANGED <<env, s, address_map, address_set, outFile, iter,
                 exitCode, run, prevOut, records>>

\* ofstream fout("contract_address_list.csv");
\* fout << "contract_address" << endl; iter = address_set.begin()
DOpenOut ==
  /\ pc = "fopen"
  /\ outFile' = Append(OpenTrunc(outFile), DedupHeaderRow)
  /\ iter' = address_set
  /\ pc' = "rows"
  /\ UNCHANGED <<env, fin, s, address_map, address_set, cout, exitCode,
                 run, prevOut, records>>

\* fout << *iter << endl; ++iter
\* The order in which an unordered_set is visited is unspecified.
DWriteRow ==
  /\ pc = "rows"
  /\ \E k \in iter :
       /\ outFile' = Append(outFile, k)
       /\ iter' = iter \ {k}
  /\ UNCHANGED <<env, fin, s, address_map, address_set, cout, pc,
                 exitCode, run, prevOut, records>>

\* iter == address_set.end(); fout.close(); return 0;
DFinish ==
  /\ pc = "rows"
  /\ iter = {}
  /\ pc' = "done"
  /\ exitCode' = <<0>>
  /\ UNCHANGED <<env, fin, s, address_map, address_set, cout, outFile,
                 iter, run, prevOut, records>>

DedupNext ==
  \/ DOpen
  \/ DReadHeader
  \/ DWhile
  \/ DBody
  \/ DPrintSize
  \/ DOpenOut
  \/ DWriteRow
  \/ DFinish

SpecDedup == Init /\ [][DedupNext]_vars

\* ------------------------------------------- what the specification says
\* The reference reading of an input text, written from the specification's
\* words and independent of the operators above.

\* The index of the first c in t, or 0.
FirstIndex(t, c) ==
  IF \E i \in 1..Len(t) : t[i] = c
    THEN CHOOSE i \in 1..Len(t) : t[i] = c /\ \A j \in 1..(i - 1) : t[j] # c
    ELSE 0

\* The lines of a text; a newline ends a line, so a final newline starts
\* no further line.
RECURSIVE SplitLines(_)
SplitLines(t) ==
  IF t = <<>> THEN <<>>
  ELSE LET i == FirstIndex(t, NL)
       IN  IF i = 0 THEN <<t>>
           ELSE <<SubSeq(t, 1, i - 1)>> \o SplitLines(SubSeq(t, i + 1, Len(t)))

\* The lines after the header line.
DataLines == IF file = <<>> THEN <<>> ELSE Tail(SplitLines(file))

HasComma(l) == FirstIndex(l, Comma) # 0

\* The text before the first comma (the whole line when there is none).
Before(l) ==
  IF HasComma(l) THEN SubSeq(l, 1, FirstIndex(l, Comma) - 1) ELSE l

\* The text after the first comma.
After(l) == SubSeq(l, FirstIndex(l, Comma) + 1, Len(l))

\* The data lines that are records: those with a comma.
WellFormed == {i \in DOMAIN DataLines : HasComma(DataLines[i])}

RefAddresses ==
  {Before(DataLines[i]) : i \in WellFormed}
    \cup {After(DataLines[i]) : i \in WellFormed}

RefCount(a) ==
  Cardinality({i \in WellFormed : Before(DataLines[i]) = a})
    + Cardinality({i \in WellFormed : After(DataLines[i]) = a})

\* The frequency table of the well-formed data lines.
RefTable == [a \in RefAddresses |-> RefCount(a)]

\* The input is a file that opens and whose reads all succeed.
Regular == openOk /\ badOffsets = {}

\* The rows of an output file after its header row.
DataRows(f) == {f[i] : i \in 2..Len(f)}

RECURSIVE SumCounts(_, _)
SumCounts(m, K) ==
  IF K = {} THEN 0
  ELSE LET k == CHOOSE x \in K : TRUE IN m[k] + SumCounts(m, K \ {k})

\* The read loop is over.
AfterLoop == pc \in {"print", "fopen", "rows", "done"}

\* The size of the table has been printed.
Printed == pc \in {"fopen", "rows", "done"}

\* C1: when the input opens and every data line has a comma, the finished
\* output is the header row followed by exactly one row `a,count` per
\* distinct address a, count being the number of data lines whose first
\* field is a plus the number whose second field is a, and the number
\* printed on standard output is the number of data rows.
C1_OutputIsFrequencyTable ==
  (pc = "done" /\ openOk /\ WellFormed = DOMAIN DataLines) =>
    /\ outFile[1] = HeaderRow
    /\ DataRows(outFile) = {Row(a, RefTable[a]) : a \in RefAddresses}
    /\ Len(outFile) - 1 = Cardinality(RefAddresses)
    /\ cout = <<Decimal(Len(outFile) - 1)>>

\* C2: in every state, the counts of the table sum to twice the number of
\* records aggregated, every key has count >= 1, both fields of every
\* aggregated record are keys (a record with two identical fields gave its
\* key 2), and the finished output has exactly one row per key, with the
\* key's count.
C2_CountsInvariant ==
  /\ SumCounts(address_map, DOMAIN address_map) = 2 * Len(records)
  /\ \A k \in DOMAIN address_map : address_map[k] >= 1
  /\ \A i \in DOMAIN records :
       /\ records[i][1] \in DOMAIN address_map
       /\ records[i][2] \in DOMAIN address_map
       /\ records[i][1] = records[i][2] => address_map[records[i][1]] >= 2
  /\ pc = "done" =>
       /\ DataRows(outFile) =
            {Row(k, address_map[k]) : k \in DOMAIN address_map}
       /\ Len(outFile) - 1 = Cardinality(DOMAIN address_map)

\* A finished run that aggregated at least two records, one of them with
\* two identical fields.
C2_Witness ==
  /\ pc = "done"
  /\ Len(records) >= 2
  /\ \E i \in DOMAIN records : records[i][1] = records[i][2]
  /\ \E i \in DOMAIN records : records[i][1] # records[i][2]

\* C3: on a file whose reads succeed the read loop makes one aggregation
\* pass per data line and none after the last line: never more passes than
\* data lines, and exactly as many once the loop is over.
C3_OnePassPerDataLine ==
  Regular =>
    /\ Len(records) <= Len(DataLines)
    /\ AfterLoop => Len(records) = Len(DataLines)

\* C4: a file of exactly one line (the header, with or without its
\* newline) gives an output file that holds the header row only.
C4_HeaderOnly ==
  (pc = "done" /\ Regular /\ Len(SplitLines(file)) = 1) =>
    outFile = <<HeaderRow>>

\* C5: an input that exists and is empty makes no aggregation pass, prints
\* 0 and gives an output file that holds the header row only.
C5_EmptyInput ==
  (Regular /\ file = <<>>) =>
    /\ records = <<>>
    /\ address_map = EmptyMap
    /\ pc # "body"
    /\ Printed => cout = << <<"0">> >>
    /\ pc = "done" => outFile = <<HeaderRow>>

\* A finished run on an empty input file.
C5_Witness == Regular /\ file = <<>> /\ pc = "done" /\ fin.eofbit

\* C6: a data line without a comma does not crash the tool and is left out
\* of the aggregation: the table after the loop is the table of the data
\* lines that have a comma.  (Files without a final newline, so that the
\* pass after the last line plays no part.)
C6_MalformedExcluded ==
  /\ pc # "terminated"
  /\ (pc = "print" /\ Regular /\ file # <<>> /\ file[Len(file)] # NL) =>
       address_map = RefTable

\* C7: when the input cannot be opened no line is read and nothing is
\* aggregated: the table stays empty, 0 is printed, the output file is
\* written with the header row only and main returns 0.
C7_OpenFailure ==
  ~openOk =>
    /\ ~fin.is_open /\ fin.pos = 0 /\ s = <<>>
    /\ pc \notin {"getheader", "while", "body"}
    /\ records = <<>>
    /\ address_map = EmptyMap
    /\ Printed => cout = << <<"0">> >>
    /\ pc = "done" => outFile = <<HeaderRow>> /\ exitCode = <<0>>

\* A finished run whose input could not be opened.
C7_Witness == ~openOk /\ pc = "done" /\ fin.failbit

\* C8: the second execution on the unchanged input leaves the output file
\* with the same rows as the first, and as many: nothing of the first
\* execution's output or table is left in it.
C8_Idempotent ==
  (run = "second" /\ pc = "done") =>
    /\ {outFile[i] : i \in DOMAIN outFile} = {prevOut[i] : i \in DOMAIN prevOut}
    /\ Len(outFile) = Len(prevOut)

\* A second execution that finished and wrote at least two data rows.
C8_Witness == run = "second" /\ pc = "done" /\ Len(outFile) >= 3

\* C10: the read loop ends.  A loop that reads a line per pass from a file
\* of n characters makes at most n + 1 passes, so no count exceeds
\* 2 * (n + 1).
C10_ReadLoopEnds ==
  /\ Len(records) <= Len(file) + 1
  /\ \A k \in DOMAIN address_map : address_map[k] <= 2 * (Len(file) + 1)

\* ------------------------------------------------ the deduplication tool
\* The distinct first fields of the data lines.
RefFirstFields == {Before(DataLines[i]) : i \in DOMAIN DataLines}

\* The character codes that order strings.
Code(c) == CASE c = NL -> 10 [] c = Comma -> 44 [] c = "a" -> 97
             [] c = "b" -> 98 [] OTHER -> 0

\* x < y as std::string compares.
RECURSIVE LexLess(_, _)
LexLess(x, y) ==
  IF y = <<>> THEN FALSE
  ELSE IF x = <<>> THEN TRUE
  ELSE IF Code(Head(x)) # Code(Head(y)) THEN Code(Head(x)) < Code(Head(y))
  ELSE LexLess(Tail(x), Tail(y))

\* Each distinct first field is on exactly one row after the header.
EachFieldOnOneRow ==
  \A a \in RefFirstFields :
    Cardinality({i \in 2..Len(outFile) : outFile[i] = a}) = 1

====
